---------------------------- MODULE Spec2Model ----------------------------
(***************************************************************************)
(* A model of src/App/cycloid_app.py: one run of the script, from the      *)
(* construction of Params to the export buttons.                           *)
(*                                                                         *)
(* Numbers.  A Python float is modelled by an exact rational <<n, d>>,     *)
(* d > 0, in lowest terms: the arithmetic of the script is the arithmetic  *)
(* of the reals, without the rounding of IEEE doubles (and without signed  *)
(* zeros, infinities or NaN).  A division by zero is the exception Python  *)
(* raises for it.                                                          *)
(*                                                                         *)
(* Angles.  An angle is a rational number of grid steps, HalfPi steps to   *)
(* the quarter turn.  cos and sin round their argument to the nearest grid *)
(* step and read a fixed-point table; arctan2 returns the grid angle       *)
(* nearest to the direction of its arguments.  Both are exact at the       *)
(* multiples of the quarter turn.                                          *)
(***************************************************************************)
EXTENDS Integers, Sequences, FiniteSets, TLC

\* ---------------------------------------------------------------------
\* Rational arithmetic (Python float arithmetic, without rounding)
\* ---------------------------------------------------------------------

Abs(n) == IF n < 0 THEN -n ELSE n

RECURSIVE GCD(_, _)
GCD(a, b) == IF b = 0 THEN a ELSE GCD(b, a % b)

\* the rational n/d in lowest terms, d # 0
Q(n, d) ==
    LET g == GCD(Abs(n), Abs(d))
        s == IF d < 0 THEN -1 ELSE 1
    IN  <<(s * n) \div g, (s * d) \div g>>

Float(n) == <<n, 1>>

Zero == Float(0)

LCM(a, b) == (a \div GCD(a, b)) * b

Add(a, b) ==
    LET l == LCM(a[2], b[2])
    IN  Q(a[1] * (l \div a[2]) + b[1] * (l \div b[2]), l)

Neg(a) == <<-a[1], a[2]>>

Sub(a, b) == Add(a, Neg(b))

Mul(a, b) ==
    LET g1 == GCD(Abs(a[1]), b[2])
        g2 == GCD(Abs(b[1]), a[2])
    IN  Q((a[1] \div g1) * (b[1] \div g2), (a[2] \div g2) * (b[2] \div g1))

\* a / b, b # 0 (the callers raise ZeroDivisionError for b = 0)
Div(a, b) == Mul(a, Q(b[2], b[1]))

Less(a, b) ==
    LET l == LCM(a[2], b[2])
    IN  a[1] * (l \div a[2]) < b[1] * (l \div b[2])

Leq(a, b) == a = b \/ Less(a, b)

\* the integer nearest to a (halves upwards)
Round(a) == (2 * a[1] + a[2]) \div (2 * a[2])

\* ---------------------------------------------------------------------
\* math.pi, np.cos, np.sin, np.arctan2, math.radians
\* ---------------------------------------------------------------------

\* cos at the grid angles of the first quarter turn, in thousandths:
\* QuarterCos[k + 1] = cos(k * 3 degrees)
QuarterCos ==
    <<1000, 999, 995, 988, 978, 966, 951, 934, 914, 891, 866,
      839, 809, 777, 743, 707, 669, 629, 588, 545, 500,
      454, 407, 358, 309, 259, 208, 156, 105, 52, 0>>

\* the table's unit: QuarterCos holds cos(0) = 1 first
Scale == Head(QuarterCos)

\* grid steps to the quarter turn
HalfPi == Len(QuarterCos) - 1

\* math.pi and 2*math.pi, in grid steps
Pi == 2 * HalfPi

TwoPi == 2 * Pi

\* cos at every grid angle of the turn, in units of 1/Scale
CosTurn ==
    [m \in 0..(TwoPi - 1) |->
        IF m <= HalfPi THEN QuarterCos[m + 1]
        ELSE IF m <= Pi THEN -QuarterCos[(Pi - m) + 1]
        ELSE IF m <= Pi + HalfPi THEN -QuarterCos[(m - Pi) + 1]
        ELSE QuarterCos[(TwoPi - m) + 1]]

\* cos and sin of the grid angle k (any integer), in units of 1/Scale
CosGrid(k) == CosTurn[k % TwoPi]

SinGrid(k) == CosTurn[(k - HalfPi) % TwoPi]

np_cos(a) == Q(CosGrid(Round(a)), Scale)

np_sin(a) == Q(SinGrid(Round(a)), Scale)

\* the grid angle of the first quarter turn nearest to the direction
\* (xa, ya), xa >= 0, ya >= 0, not both 0: where the projection of the
\* direction peaks
NearestQuarter(xa, ya) ==
    LET proj(k) == xa * CosGrid(k) + ya * SinGrid(k)
    IN  CHOOSE k \in 0..HalfPi : proj(k) > proj(k - 1) /\ proj(k) >= proj(k + 1)

\* np.arctan2(y, x): the angle of the direction (x, y), in [-Pi, Pi], to
\* the nearest grid angle; arctan2(0, 0) = 0
np_arctan2(y, x) ==
    LET l  == LCM(y[2], x[2])
        yn == y[1] * (l \div y[2])
        xn == x[1] * (l \div x[2])
        g  == GCD(Abs(yn), Abs(xn))
        k  == NearestQuarter(Abs(xn) \div g, Abs(yn) \div g)
    IN  IF yn = 0 /\ xn = 0 THEN Zero
        ELSE IF xn >= 0 /\ yn >= 0 THEN Float(k)
        ELSE IF xn < 0 /\ yn >= 0 THEN Float(Pi - k)
        ELSE IF xn < 0 THEN Float(k - Pi)
        ELSE Float(-k)

\* math.radians(deg) = deg * pi / 180
math_radians(deg) == Div(Mul(deg, Float(Pi)), Float(180))

\* np.linspace(start, stop, num, endpoint), num >= 0:
\* step = (stop - start) / div, y = arange(num) * step + start, and with
\* endpoint the last sample is set to stop itself
np_linspace(start, stop, num, endpoint) ==
    LET div  == IF endpoint THEN num - 1 ELSE num
        step == IF div > 0 THEN Div(Sub(stop, start), Float(div)) ELSE Zero
    IN  [i \in 1..num |->
            IF endpoint /\ num > 1 /\ i = num THEN stop
            ELSE Add(start, Mul(Float(i - 1), step))]


\* ---------------------------------------------------------------------
\* SECTION A: Parameters + Maths
\* ---------------------------------------------------------------------

\* Python's None, and a name not yet bound: a value with nothing in it (every
\* array and text the script builds has at least one row)
None == <<>>

\* gear_ratio_N_to_Nminus1(N): nan for N <= 1
gear_ratio_N_to_Nminus1(N) == IF N <= 1 THEN "nan" ELSE Float(N - 1)

\* R / (E * N) is a division of Python floats: it raises for E * N = 0
cycloid_raises(E, N) == Mul(E, Float(N)) = Zero

\* psi with the arguments of arctan2 exchanged
cycloid_psi_swapped(ti, R, E, N, phase_rad) ==
    LET tt    == Add(ti, phase_rad)
        a     == Mul(Float(1 - N), tt)
        denom == Sub(Div(R, Mul(E, Float(N))), np_cos(a))
    IN  np_arctan2(denom, np_sin(a))

\* psi of cycloid_profile_xy at one sample ti
cycloid_psi(ti, R, E, N, phase_rad) ==
    LET tt    == Add(ti, phase_rad)
        a     == Mul(Float(1 - N), tt)
        denom == Sub(Div(R, Mul(E, Float(N))), np_cos(a))
    IN  np_arctan2(np_sin(a), denom)

\* the point with the E terms taken at ti, not at ti + phase_rad
cycloid_point_unshifted(ti, R, Rr, E, N, phase_rad) ==
    LET tt  == Add(ti, phase_rad)
        psi == cycloid_psi(ti, R, E, N, phase_rad)
        x   == Sub(Sub(Mul(R, np_cos(tt)), Mul(Rr, np_cos(Add(tt, psi)))),
                   Mul(E, np_cos(Mul(Float(N), ti))))
        y   == Add(Add(Mul(Neg(R), np_sin(tt)), Mul(Rr, np_sin(Add(tt, psi)))),
                   Mul(E, np_sin(Mul(Float(N), ti))))
    IN  <<x, y>>

\* <<x, y>> of cycloid_profile_xy at one sample ti
cycloid_point(ti, R, Rr, E, N, phase_rad) ==
    LET tt  == Add(ti, phase_rad)
        psi == cycloid_psi(ti, R, E, N, phase_rad)
        x   == Sub(Sub(Mul(R, np_cos(tt)), Mul(Rr, np_cos(Add(tt, psi)))),
                   Mul(E, np_cos(Mul(Float(N), tt))))
        y   == Add(Add(Mul(Neg(R), np_sin(tt)), Mul(Rr, np_sin(Add(tt, psi)))),
                   Mul(E, np_sin(Mul(Float(N), tt))))
    IN  <<x, y>>

\* the profile with its points in the opposite order
cycloid_profile_xy_reversed(tarr, R, Rr, E, N, phase_rad) ==
    LET n   == Len(tarr)
        pts == [i \in DOMAIN tarr |->
                   cycloid_point(tarr[n + 1 - i], R, Rr, E, N, phase_rad)]
    IN  <<[i \in DOMAIN tarr |-> pts[i][1]], [i \in DOMAIN tarr |-> pts[i][2]]>>

\* cycloid_profile_xy(t, R, Rr, E, N, phase_rad), t an array: <<x, y>>,
\* two arrays as long as t
cycloid_profile_xy(tarr, R, Rr, E, N, phase_rad) ==
    LET pts == [i \in DOMAIN tarr |-> cycloid_point(tarr[i], R, Rr, E, N, phase_rad)]
    IN  <<[i \in DOMAIN tarr |-> pts[i][1]], [i \in DOMAIN tarr |-> pts[i][2]]>>

\* np.linspace raises ValueError for a negative number of samples
linspace_raises(num) == num < 0

\* the centres with the last angle at the whole turn (endpoint=True)
roller_centres_closed(R, N) ==
    LET ang == np_linspace(Zero, Float(TwoPi), N, TRUE)
    IN  [k \in 1..N |-> <<Mul(R, np_cos(ang[k])), Mul(R, np_sin(ang[k]))>>]

\* roller_centres(R, N), N >= 0: the rows <<R*cos(ang), R*sin(ang)>>
roller_centres(R, N) ==
    LET ang == np_linspace(Zero, Float(TwoPi), N, FALSE)
    IN  [k \in 1..N |-> <<Mul(R, np_cos(ang[k])), Mul(R, np_sin(ang[k]))>>]

\* output_hole_centres(out_pin_circle_R, out_pin_count)
output_hole_centres(out_pin_circle_R, out_pin_count) ==
    LET ang == np_linspace(Zero, Float(TwoPi), out_pin_count, FALSE)
    IN  [k \in 1..out_pin_count |->
            <<Mul(out_pin_circle_R, np_cos(ang[k])),
              Mul(out_pin_circle_R, np_sin(ang[k]))>>]


\* ---------------------------------------------------------------------
\* SECTION B: Exporters
\* A text is the sequence of its lines; a line built by an f-string is the
\* tuple of its literal parts and the values formatted into it.
\* ---------------------------------------------------------------------

\* the digits after the point in csv_points' format, ".6f"
Decimals == 6

RECURSIVE Pow10(_)
Pow10(k) == IF k = 0 THEN 1 ELSE 10 * Pow10(k - 1)

\* the first k decimal digits of rem/d, 0 <= rem < d, and the remainder left
RECURSIVE FracDigits(_, _, _)
FracDigits(rem, d, k) ==
    IF k = 0 THEN <<0, rem>>
    ELSE LET rest == FracDigits((rem * 10) % d, d, k - 1)
         IN  <<((rem * 10) \div d) * Pow10(k - 1) + rest[1], rest[2]>>

\* f"{v:.6f}": the sign, the integer part and the Decimals digits after the
\* point of v rounded to Decimals places (a half to the even digit)
format_f(v) ==
    LET n  == Abs(v[1])
        d  == v[2]
        fr == FracDigits(n % d, d, Decimals)
        m0 == (n \div d) * Pow10(Decimals) + fr[1]
        m  == IF 2 * fr[2] > d \/ (2 * fr[2] = d /\ m0 % 2 = 1) THEN m0 + 1 ELSE m0
    IN  [neg |-> v[1] < 0, int |-> m \div Pow10(Decimals), frac |-> m % Pow10(Decimals)]

Min(a, b) == IF a < b THEN a ELSE b

\* the table with its two columns exchanged
csv_points_swapped(x, y) ==
    <<"x_mm,y_mm">>
      \o [i \in 1..Min(Len(x), Len(y)) |-> <<format_f(y[i]), ",", format_f(x[i])>>]

\* csv_points(x, y): the header, then one row per pair of zip(x, y)
csv_points(x, y) ==
    <<"x_mm,y_mm">>
      \o [i \in 1..Min(Len(x), Len(y)) |-> <<format_f(x[i]), ",", format_f(y[i])>>]

\* solidworks_equations_text(p): the lines before the disc 2 note
equations_lines(q) ==
    LET N    == q.N
        psi  == <<"atan( sin((1-", N, ")*t) / ((R/(E*", N, ")) - cos((1-", N, ")*t)) )">>
        x_eq == <<"X = (R*cos(t)) - (Rr*cos(t + ", psi, ")) - (E*cos(", N, "*t))">>
        y_eq == <<"Y = (-R*sin(t)) + (Rr*sin(t + ", psi, ")) + (E*sin(", N, "*t))">>
        t0   == Zero
        t1   == Sub(Float(TwoPi), q.eps)
    IN  << <<"SolidWorks Equation Driven Curve (Parametric)">>,
           <<"Units: mm for R, Rr, E. Parameter t is radians.">>,
           <<"">>,
           <<"Define these variables in SolidWorks Equations:">>,
           <<"R  = ", q.R>>,
           <<"Rr = ", q.Rr>>,
           <<"E  = ", q.E>>,
           <<"N  = ", q.N>>,
           <<"">>,
           <<"Paste into the Equation Driven Curve dialog:">>,
           x_eq,
           y_eq,
           <<"">>,
           <<"Recommended t range: ", t0, " to ", t1, " (avoid exactly 2*pi)">> >>

\* solidworks_equations_text(p): the disc 2 note
disc2_note(q) ==
    LET phase == math_radians(q.disc2_phase_deg)
    IN  << <<"">>,
           <<"Optional: Disc 2 (phase shifted)">>,
           <<"Use t2 = t + ", phase, "  (or add ", phase, " everywhere t appears)">> >>

\* the equations text with the disc 2 note whatever dual_disc says
solidworks_equations_text_noted(q) == equations_lines(q) \o disc2_note(q)

\* solidworks_equations_text(p)
solidworks_equations_text(q) ==
    IF q.dual_disc THEN equations_lines(q) \o disc2_note(q) ELSE equations_lines(q)

\* parameters_text(p), ts the text of datetime.now()
parameters_text(q, ts) ==
    LET lobes      == q.N - 1
        ratio_hint == gear_ratio_N_to_Nminus1(q.N)
        lines == << <<"Generated: ", ts>>,
                    <<"">>,
                    <<"Core rotor parameters (mm unless stated):">>,
                    <<"N (rollers)            = ", q.N>>,
                    <<"Lobes (N-1)             = ", lobes>>,
                    <<"R  (roller PCD radius)  = ", q.R>>,
                    <<"Rr (roller radius)      = ", q.Rr>>,
                    <<"E  (eccentricity)       = ", q.E>>,
                    <<"Ratio hint (~N-1)        = ", ratio_hint>>,
                    <<"">>,
                    <<"Output holes:">>,
                    <<"Output pin circle radius = ", q.out_pin_circle_R>>,
                    <<"Output pin count         = ", q.out_pin_count>>,
                    <<"Output pin diameter      = ", q.out_pin_diam>>,
                    <<"Hole clearance           = ", q.hole_clearance>>,
                    <<"">>,
                    <<"Sampling:">>,
                    <<"samples                  = ", q.samples>>,
                    <<"eps (rad)                = ", q.eps>> >>
    IN  IF q.dual_disc
        THEN lines \o << <<"">>,
                         <<"Dual disc:">>,
                         <<"disc2 phase (deg)        = ", q.disc2_phase_deg>> >>
        ELSE lines


\* ---------------------------------------------------------------------
\* SECTION C: the script
\* ---------------------------------------------------------------------

VARIABLES
    pc,         \* the step of the script that runs next
    p,          \* Params
    warnings,   \* the list built by the sanity checks
    shown,      \* the messages st.warning has displayed
    t,          \* the parameter sweep
    x1, y1,     \* disc 1
    phase2,
    x2, y2,     \* disc 2, or None
    fig,        \* the figure st.pyplot has displayed
    eq_txt, par_txt,
    csv1, csv2,
    downloads,  \* the download buttons, in order
    err         \* the exception that ended the run, or None

vars == <<pc, p, warnings, shown, t, x1, y1, phase2, x2, y2, fig,
          eq_txt, par_txt, csv1, csv2, downloads, err>>

\* The values the inputs are drawn from.  Params is a plain dataclass: it
\* holds whatever it is given, so the sets reach past the ranges of the
\* sidebar's widgets (N >= 3, R, Rr >= 0.1, E >= 0.001), to the values the
\* sanity checks exist for.  The sweeps are far shorter than the slider's 200
\* samples; eps has no maximum in the sidebar.
MaxSamples == 3

RValues == {Float(-20), Float(1), Float(20)}

RrValues == {Float(1), Float(3)}

EValues == {Float(-1), Zero, Q(1, 10), Float(1), Q(11, 10), Float(3)}

NValues == {-3, 0, 4, 10}

\* <<out_pin_circle_R, out_pin_count, out_pin_diam, hole_clearance>>
OutputHoleValues == {<<Float(10), 4, Float(8), Q(2, 10)>>, <<Zero, 1, Float(8), Zero>>}

PhaseDegValues == {Zero, Float(180)}

\* eps, in grid steps: a margin of a step and a half, and a whole turn
EpsValues == {Q(3, 2), Float(TwoPi)}

\* texts of datetime.now()
Timestamps == {"2024-01-01 00:00:00", "2024-01-01 00:00:01"}

W_E == "E must be > 0."

W_EN == "E is larger than R/N. This often causes ugly/self-intersecting profiles. Not always invalid, but check fit."

W_R == "R should usually be larger than Rr (roller circle radius vs roller radius)."

Init ==
    /\ pc = "inputs"
    /\ p = None
    /\ warnings = <<>>
    /\ shown = <<>>
    /\ t = None
    /\ x1 = None
    /\ y1 = None
    /\ phase2 = None
    /\ x2 = None
    /\ y2 = None
    /\ fig = None
    /\ eq_txt = None
    /\ par_txt = None
    /\ csv1 = None
    /\ csv2 = None
    /\ downloads = <<>>
    /\ err = None

\* the sidebar's values made into Params
ReadInputs ==
    /\ pc = "inputs"
    /\ \E R \in RValues, Rr \in RrValues, E \in EValues, N \in NValues,
          out \in OutputHoleValues, dual_disc \in BOOLEAN,
          disc2_phase_deg \in PhaseDegValues,
          samples \in 2..MaxSamples, eps \in EpsValues :
            p' = [R |-> R, Rr |-> Rr, E |-> E, N |-> N,
                  out_pin_circle_R |-> out[1], out_pin_count |-> out[2],
                  out_pin_diam |-> out[3], hole_clearance |-> out[4],
                  dual_disc |-> dual_disc, disc2_phase_deg |-> disc2_phase_deg,
                  samples |-> samples, eps |-> eps]
    /\ pc' = "checks"
    /\ UNCHANGED <<warnings, shown, t, x1, y1, phase2, x2, y2, fig,
                   eq_txt, par_txt, csv1, csv2, downloads, err>>

\* the three checks, each the list of what it appends
check_E(q) == IF Leq(q.E, Zero) THEN <<W_E>> ELSE <<>>

\* the second check with >= for >
check_EN_geq(q) == IF Leq(Div(q.R, Float(q.N)), q.E) THEN <<W_EN>> ELSE <<>>

check_EN(q) == IF Less(Div(q.R, Float(q.N)), q.E) THEN <<W_EN>> ELSE <<>>

\* the third check with < for <=
check_R_strict(q) == IF Less(q.R, q.Rr) THEN <<W_R>> ELSE <<>>

check_R(q) == IF Leq(q.R, q.Rr) THEN <<W_R>> ELSE <<>>

\* Sanity checks: p.R / p.N raises for N = 0, after the first check
SanityChecks ==
    /\ pc = "checks"
    /\ IF p.N = 0
       THEN /\ warnings' = check_E(p)
            /\ shown' = shown
            /\ err' = [type |-> "ZeroDivisionError", step |-> "checks"]
            /\ pc' = "error"
       ELSE /\ warnings' = check_E(p) \o check_EN(p) \o check_R(p)
            /\ shown' = warnings'
            /\ err' = err
            /\ pc' = "profile"
    /\ UNCHANGED <<p, t, x1, y1, phase2, x2, y2, fig,
                   eq_txt, par_txt, csv1, csv2, downloads>>

\* Generate profile points
GenerateProfile ==
    /\ pc = "profile"
    /\ t' = np_linspace(Zero, Sub(Float(TwoPi), p.eps), p.samples, TRUE)
    /\ IF cycloid_raises(p.E, p.N)
       THEN /\ err' = [type |-> "ZeroDivisionError", step |-> "profile"]
            /\ pc' = "error"
            /\ UNCHANGED <<x1, y1>>
       ELSE /\ LET xy == cycloid_profile_xy(t', p.R, p.Rr, p.E, p.N, Zero)
               IN  x1' = xy[1] /\ y1' = xy[2]
            /\ pc' = "disc2"
            /\ err' = err
    /\ UNCHANGED <<p, warnings, shown, phase2, x2, y2, fig,
                   eq_txt, par_txt, csv1, csv2, downloads>>

\* disc 2, when asked for
GenerateDisc2 ==
    /\ pc = "disc2"
    /\ phase2' = math_radians(p.disc2_phase_deg)
    /\ IF p.dual_disc
       THEN LET xy == cycloid_profile_xy(t, p.R, p.Rr, p.E, p.N, phase2')
            IN  x2' = xy[1] /\ y2' = xy[2]
       ELSE x2' = None /\ y2' = None
    /\ pc' = "plot"
    /\ UNCHANGED <<p, warnings, shown, t, x1, y1, fig,
                   eq_txt, par_txt, csv1, csv2, downloads, err>>

\* the circles of one ring: a row per centre, with the radius drawn
circles(centres, radius) ==
    [i \in DOMAIN centres |-> [centre |-> centres[i], radius |-> radius]]

\* Build plot: the rotor curve(s), the rollers, the output holes, the legend
BuildPlot ==
    /\ pc = "plot"
    /\ IF linspace_raises(p.N) \/ linspace_raises(p.out_pin_count)
       THEN /\ err' = [type |-> "ValueError", step |-> "plot"]
            /\ pc' = "error"
            /\ fig' = fig
       ELSE /\ LET centres     == roller_centres(p.R, p.N)
                   hole_R      == Div(Add(p.out_pin_diam, p.hole_clearance), Float(2))
                   out_centres == output_hole_centres(p.out_pin_circle_R, p.out_pin_count)
                   curves == << [label |-> "Rotor (disc 1)", x |-> x1, y |-> y1] >>
                             \o (IF p.dual_disc
                                 THEN << [label |-> "Rotor (disc 2)", x |-> x2, y |-> y2] >>
                                 ELSE <<>>)
               IN  fig' = [curves  |-> curves,
                           rollers |-> circles(centres, p.Rr),
                           holes   |-> circles(out_centres, hole_R),
                           legend  |-> [i \in DOMAIN curves |-> curves[i].label]
                                       \o (IF Len(centres) > 0 THEN <<"Rollers">> ELSE <<>>)
                                       \o (IF Len(out_centres) > 0
                                           THEN <<"Output holes">> ELSE <<>>)]
            /\ pc' = "exports"
            /\ err' = err
    /\ UNCHANGED <<p, warnings, shown, t, x1, y1, phase2, x2, y2,
                   eq_txt, par_txt, csv1, csv2, downloads>>

\* the file name of a download: f"{stem}_N{p.N}_R{p.R}_Rr{p.Rr}_E{p.E}" and
\* what follows it
file_name(stem, q, ending) ==
    <<stem, "_N", q.N, "_R", q.R, "_Rr", q.Rr, "_E", q.E>> \o ending

\* Exports: the two texts, the point tables, the download buttons
Exports ==
    /\ pc = "exports"
    /\ eq_txt' = solidworks_equations_text(p)
    /\ \E ts \in Timestamps : par_txt' = parameters_text(p, ts)
    /\ csv1' = csv_points(x1, y1)
    /\ csv2' = IF p.dual_disc THEN csv_points(x2, y2) ELSE csv2
    /\ downloads' =
         << [label |-> "Download Disc 1 points (CSV)", data |-> csv1',
             file_name |-> file_name("disc1_points", p, <<".csv">>),
             mime |-> "text/csv"] >>
         \o (IF p.dual_disc
             THEN << [label |-> "Download Disc 2 points (CSV)", data |-> csv2',
                      file_name |-> file_name("disc2_points", p,
                                              <<"_phase", p.disc2_phase_deg, ".csv">>),
                      mime |-> "text/csv"] >>
             ELSE <<>>)
         \o << [label |-> "Download SolidWorks equations (TXT)", data |-> eq_txt',
                file_name |-> file_name("solidworks_equations", p, <<".txt">>),
                mime |-> "text/plain"],
               [label |-> "Download parameters (TXT)", data |-> par_txt',
                file_name |-> file_name("parameters", p, <<".txt">>),
                mime |-> "text/plain"] >>
    /\ pc' = "done"
    /\ UNCHANGED <<p, warnings, shown, t, x1, y1, phase2, x2, y2, fig, err>>

Next ==
    \/ ReadInputs
    \/ SanityChecks
    \/ GenerateProfile
    \/ GenerateDisc2
    \/ BuildPlot
    \/ Exports

Spec == Init /\ [][Next]_vars


\* ---------------------------------------------------------------------
\* Properties
\* ---------------------------------------------------------------------

\* how far the run has come
ChecksDone ==
    \/ pc \in {"profile", "disc2", "plot", "exports", "done"}
    \/ pc = "error" /\ err.step # "checks"

ProfileDone ==
    \/ pc \in {"disc2", "plot", "exports", "done"}
    \/ pc = "error" /\ err.step = "plot"

Disc2Done ==
    \/ pc \in {"plot", "exports", "done"}
    \/ pc = "error" /\ err.step = "plot"

PlotDone == pc \in {"exports", "done"}

Done == pc = "done"

Has(list, w) == \E i \in DOMAIN list : list[i] = w

\* the three conditions, on the numerators and denominators of the inputs
E_NotPositive(q) == q.E[1] <= 0

E_Above_R_Over_N(q) ==
    IF q.N > 0
    THEN q.E[1] * q.N * q.R[2] > q.R[1] * q.E[2]
    ELSE q.E[1] * q.N * q.R[2] < q.R[1] * q.E[2]

R_NotAbove_Rr(q) == q.R[1] * q.Rr[2] <= q.Rr[1] * q.R[2]

IsRotor(q, R, Rr, E, N) == q.R = R /\ q.Rr = Rr /\ q.E = E /\ q.N = N

(* C1: for N # 0 the checks complete, and the list of warnings holds the
   "E must be > 0" warning exactly when E <= 0, the "E is larger than R/N"
   warning exactly when E > R/N and the "R should usually be larger than Rr"
   warning exactly when R <= Rr, each decided on its own, in that order and
   with nothing else; all of them are displayed; R=20, Rr=3, E=1.1, N=10
   gives the empty list. *)
C1_WarningsExact ==
    /\ (pc = "error" /\ err.step = "checks") => p.N = 0
    /\ ChecksDone =>
         /\ p.N # 0
         /\ Has(warnings, W_E) <=> E_NotPositive(p)
         /\ Has(warnings, W_EN) <=> E_Above_R_Over_N(p)
         /\ Has(warnings, W_R) <=> R_NotAbove_Rr(p)
         /\ warnings = (IF E_NotPositive(p) THEN <<W_E>> ELSE <<>>)
                       \o (IF E_Above_R_Over_N(p) THEN <<W_EN>> ELSE <<>>)
                       \o (IF R_NotAbove_Rr(p) THEN <<W_R>> ELSE <<>>)
         /\ shown = warnings
         /\ IsRotor(p, Float(20), Float(3), Q(11, 10), 10) => warnings = <<>>

\* all three checks fail at once, and all three are reported
C1_Witness == ChecksDone /\ warnings = <<W_E, W_EN, W_R>>

(* C2: whatever warnings the checks produced, the run goes on: it obtains
   the profile and reaches the plot and the exports, and does not end in an
   error after the checks. *)
C2_RunContinues == ChecksDone => pc # "error"

(* C3: the checks never raise: whatever the parameters, N = 0 included, they
   end with a list of warnings and not with an exception. *)
C3_ChecksNeverRaise == ~(pc = "error" /\ err.step = "checks")

(* C10 as stated: for R=1, Rr=1, E=1, N=10 the list of warnings is the
   "R should usually be larger than Rr" warning and no other. *)
C10_OnlyRWarning ==
    (ChecksDone /\ IsRotor(p, Float(1), Float(1), Float(1), 10)) => warnings = <<W_R>>

(* C10 amended: for R=1, Rr=1, E=1, N=10 the list of warnings is the
   "E is larger than R/N" warning (1 > 1/10) followed by the "R should
   usually be larger than Rr" warning, without the "E must be > 0" warning. *)
C10_TwoWarnings ==
    (ChecksDone /\ IsRotor(p, Float(1), Float(1), Float(1), 10))
        => warnings = <<W_EN, W_R>>

C10_Witness ==
    ChecksDone /\ IsRotor(p, Float(1), Float(1), Float(1), 10) /\ Has(shown, W_R)


\* the sweep and disc 1 are as they should be for samples points from 0 to
\* 2*pi - eps: the length, the two ends, the constant step, the strict
\* increase according to `rising`, and every point the evaluator's at its t
SweepAndProfile(rising) ==
    LET n    == p.samples
        stop == Sub(Float(TwoPi), p.eps)
        step == Q(stop[1], stop[2] * (n - 1))
    IN  /\ Len(t) = n /\ Len(x1) = n /\ Len(y1) = n
        /\ t[1] = Zero
        /\ t[n] = stop
        /\ \A i \in 1..(n - 1) : Sub(t[i + 1], t[i]) = step
        /\ rising => \A i \in 1..(n - 1) : Less(t[i], t[i + 1])
        /\ \A i \in 1..n :
              <<x1[i], y1[i]>> = cycloid_point(t[i], p.R, p.Rr, p.E, p.N, Zero)

(* C4 as stated: for every samples >= 2 and eps > 0 the profile of disc 1 has
   exactly samples points, the i-th the evaluator's result at t_i, with
   t_0 = 0, t_last = 2*pi - eps and t strictly increasing by a constant
   step. *)
C4_SweepAnyEps ==
    (ProfileDone /\ p.samples >= 2 /\ Less(Zero, p.eps)) => SweepAndProfile(TRUE)

(* C4 amended: the same for every samples >= 2 and every eps with
   0 < eps < 2*pi; for eps >= 2*pi the sweep still has samples points from 0
   to 2*pi - eps by a constant step, each point the evaluator's result at its
   t, but t does not increase. *)
C4_SweepOrdered ==
    (ProfileDone /\ p.samples >= 2 /\ Less(Zero, p.eps))
        => SweepAndProfile(Less(p.eps, Float(TwoPi)))

\* a sweep of the greatest length, short of the whole turn, has been evaluated
C4_Witness ==
    /\ ProfileDone
    /\ p.samples = MaxSamples
    /\ Less(Zero, p.eps) /\ Less(p.eps, Float(TwoPi))
    /\ Less(t[1], t[2])
    /\ x1[2] # x1[1]

\* phase offsets the evaluator is compared at
PhaseValues == {Float(7), Q(1, 3), Float(-Pi)}

(* C5: the evaluator's result at t with phase offset phi is its result at
   t + phi with phase offset 0 (compared at every t of the sweep, once the
   sweep is made); the point of disc 2 at sample i is the
   evaluator's result at t_i + radians(disc2_phase_deg) with phase offset 0,
   where radians(d) * 180 = d * pi. *)
C5_PhaseShift ==
    /\ pc = "disc2" =>
         \A i \in DOMAIN t : \A phi \in PhaseValues :
            cycloid_point(t[i], p.R, p.Rr, p.E, p.N, phi)
              = cycloid_point(Add(t[i], phi), p.R, p.Rr, p.E, p.N, Zero)
    /\ Disc2Done =>
         /\ Mul(phase2, Float(180)) = Mul(p.disc2_phase_deg, Float(Pi))
         /\ p.dual_disc =>
              /\ Len(x2) = Len(t) /\ Len(y2) = Len(t)
              /\ \A i \in DOMAIN t :
                    <<x2[i], y2[i]>>
                      = cycloid_point(Add(t[i], phase2), p.R, p.Rr, p.E, p.N, Zero)

\* disc 2 has been generated half a turn from disc 1 and differs from it
C5_Witness ==
    /\ Disc2Done
    /\ p.dual_disc
    /\ p.disc2_phase_deg = Float(180)
    /\ phase2 = Float(Pi)
    /\ x2 # x1

(* C9: with phase offset 0, N >= 3, R, Rr, E > 0 and R/(E*N) > 1, the
   evaluator at t = 0 has psi = 0 and returns (R - Rr - E, 0), which is the
   first point of disc 1; for R=20, Rr=3, E=1.1, N=10 it is (15.9, 0). *)
C9_FirstPoint ==
    (/\ ProfileDone
     /\ p.N >= 3
     /\ p.R[1] > 0 /\ p.Rr[1] > 0 /\ p.E[1] > 0
     /\ p.R[1] * p.E[2] > p.E[1] * p.N * p.R[2])
    => /\ t[1] = Zero
       /\ cycloid_psi(Zero, p.R, p.E, p.N, Zero) = Zero
       /\ cycloid_point(Zero, p.R, p.Rr, p.E, p.N, Zero) = <<x1[1], y1[1]>>
       /\ x1[1][1] * p.R[2] * p.Rr[2] * p.E[2]
            = x1[1][2] * (p.R[1] * p.Rr[2] * p.E[2] - p.Rr[1] * p.R[2] * p.E[2]
                           - p.E[1] * p.R[2] * p.Rr[2])
       /\ y1[1] = Zero
       /\ IsRotor(p, Float(20), Float(3), Q(11, 10), 10) => x1[1] = Q(159, 10)

C9_Witness ==
    /\ ProfileDone
    /\ IsRotor(p, Float(20), Float(3), Q(11, 10), 10)
    /\ x1[1] = Q(159, 10)
    /\ y1[1] = Zero


\* the text holds the note on disc 2, with this phase
HasDisc2Note(text, phase) ==
    \E i \in DOMAIN text :
        /\ Len(text[i]) = 5
        /\ text[i][1] = "Use t2 = t + "
        /\ text[i][2] = phase

HasAnyDisc2Note(text) ==
    \E i \in DOMAIN text :
        text[i][1] = "Use t2 = t + " \/ text[i][1] = "Optional: Disc 2 (phase shifted)"

HasButton(label) == \E i \in DOMAIN downloads : downloads[i].label = label

HasCurve(label) == \E i \in DOMAIN fig.curves : fig.curves[i].label = label

(* C6: the curve and the point table of disc 1 are always produced; the curve
   (x2, y2) of disc 2, its point table and the "t2 = t + phase" note of the
   equations text, phase being disc2_phase_deg in radians, are produced when
   dual_disc is set and none of them when it is not, whatever
   disc2_phase_deg is. *)
C6_Disc2IffDual ==
    /\ Disc2Done =>
         /\ x1 # None /\ y1 # None
         /\ p.dual_disc <=> x2 # None
         /\ p.dual_disc <=> y2 # None
    /\ PlotDone =>
         /\ HasCurve("Rotor (disc 1)")
         /\ fig.curves[1].x = x1 /\ fig.curves[1].y = y1
         /\ p.dual_disc <=> HasCurve("Rotor (disc 2)")
         /\ p.dual_disc => fig.curves[2].x = x2 /\ fig.curves[2].y = y2
    /\ Done =>
         /\ csv1 # None
         /\ HasButton("Download Disc 1 points (CSV)")
         /\ p.dual_disc <=> csv2 # None
         /\ p.dual_disc <=> HasButton("Download Disc 2 points (CSV)")
         /\ p.dual_disc <=> HasAnyDisc2Note(eq_txt)
         /\ p.dual_disc =>
              /\ HasDisc2Note(eq_txt, phase2)
              /\ Mul(phase2, Float(180)) = Mul(p.disc2_phase_deg, Float(Pi))
              /\ Len(csv2) = 1 + p.samples

\* a run with both discs has made every artefact of disc 2
C6_Witness ==
    /\ Done
    /\ p.dual_disc
    /\ p.disc2_phase_deg = Float(180)
    /\ HasButton("Download Disc 2 points (CSV)")
    /\ HasDisc2Note(eq_txt, Float(Pi))

\* the k-th point, k from 0, of count points on the circle of this radius
CirclePoint(radius, count, k) ==
    <<Mul(radius, np_cos(Q(TwoPi * k, count))), Mul(radius, np_sin(Q(TwoPi * k, count)))>>

IsCirclePlacement(points, radius, count) ==
    /\ Len(points) = count
    /\ \A k \in 0..(count - 1) : points[k + 1] = CirclePoint(radius, count, k)
    /\ points[1] = <<radius, Zero>>

(* C7: for radius >= 0 and count >= 1, roller_centres and output_hole_centres
   each return count points, the k-th (k = 0 .. count-1) being
   (radius*cos(2*pi*k/count), radius*sin(2*pi*k/count)), the first at angle 0;
   the two return the same for the same arguments; R=20, N=4 gives (20,0),
   (0,20), (-20,0), (0,-20).  Checked on the rings the plot draws and on every
   pairing of their radii and counts. *)
C7_CirclePlacement ==
    PlotDone =>
      LET radii  == {r \in {p.R, p.out_pin_circle_R} : r[1] >= 0}
          counts == {c \in {p.N, p.out_pin_count} : c >= 1}
      IN  /\ (p.R[1] >= 0 /\ p.N >= 1) =>
                IsCirclePlacement([i \in DOMAIN fig.rollers |-> fig.rollers[i].centre],
                                  p.R, p.N)
          /\ (p.out_pin_circle_R[1] >= 0 /\ p.out_pin_count >= 1) =>
                IsCirclePlacement([i \in DOMAIN fig.holes |-> fig.holes[i].centre],
                                  p.out_pin_circle_R, p.out_pin_count)
          /\ \A r \in radii : \A c \in counts :
                /\ IsCirclePlacement(roller_centres(r, c), r, c)
                /\ IsCirclePlacement(output_hole_centres(r, c), r, c)
                /\ roller_centres(r, c) = output_hole_centres(r, c)
          /\ (p.R = Float(20) /\ p.N = 4) =>
                roller_centres(p.R, p.N)
                  = << <<Float(20), Zero>>, <<Zero, Float(20)>>,
                       <<Float(-20), Zero>>, <<Zero, Float(-20)>> >>

\* the four rollers of R=20, N=4 have been drawn, the second at (0, 20)
C7_Witness ==
    /\ PlotDone
    /\ p.R = Float(20) /\ p.N = 4
    /\ Len(fig.rollers) = 4
    /\ fig.rollers[2].centre = <<Zero, Float(20)>>

\* f is the text of v to Decimals places: the sign of v, Decimals digits after
\* the point, and a value within half a unit of the last place of |v|
IsTextOf(f, v) ==
    LET unit == Pow10(Decimals)
        back == Q(f.int * unit + f.frac, unit)
        mag  == <<Abs(v[1]), v[2]>>
        off  == Sub(mag, back)
    IN  /\ f.int >= 0
        /\ f.frac \in 0..(unit - 1)
        /\ f.neg <=> v[1] < 0
        /\ Leq(<<Abs(off[1]), off[2]>>, Q(1, 2 * unit))

IsPointTable(csv, x, y) ==
    /\ csv[1] = "x_mm,y_mm"
    /\ Len(csv) = 1 + Len(x)
    /\ \A i \in DOMAIN x :
          /\ Len(csv[i + 1]) = 3
          /\ IsTextOf(csv[i + 1][1], x[i])
          /\ csv[i + 1][2] = ","
          /\ IsTextOf(csv[i + 1][3], y[i])

(* C8: for x, y of one length n, csv_points(x, y) is the header row
   "x_mm,y_mm" and then n rows, the i-th holding x[i] and then y[i], each to 6
   digits after the point; the rows are in the order of the samples, so the
   table of a disc has samples rows in the order of t. *)
C8_PointTable ==
    Done =>
      /\ Len(x1) = p.samples /\ Len(y1) = p.samples
      /\ IsPointTable(csv1, x1, y1)
      /\ p.dual_disc => IsPointTable(csv2, x2, y2)

\* the table of R=20, Rr=3, E=1.1, N=10 starts with the row 15.900000,0.000000
C8_Witness ==
    /\ Done
    /\ IsRotor(p, Float(20), Float(3), Q(11, 10), 10)
    /\ p.samples = MaxSamples
    /\ csv1[2] = << [neg |-> FALSE, int |-> 15, frac |-> 900000], ",",
                    [neg |-> FALSE, int |-> 0, frac |-> 0] >>
    /\ x1[2] # y1[2]

=============================================================================
